---- MODULE Spec2Model ----
(***************************************************************************)
(* game-hub: the App component's gameQuery state, the filter components    *)
(* that update it, the data hooks and the components that render the       *)
(* fetched data.                                                           *)
(*                                                                         *)
(* JavaScript values are tagged records, so that undefined, null, strings, *)
(* numbers and objects stay distinct values.                               *)
(***************************************************************************)
EXTENDS Integers, Sequences, FiniteSets, TLC

\* ------------------------------------------------------------------ bounds
\* User events (clicks and form submissions) in one behaviour
MaxEvents == 3

\* Steps of the clock, of half a staleTime each, in one behaviour
MaxTicks == 4

\* Requests one query sends in one behaviour
MaxRequests == 3

\* ------------------------------------------------------------------ values
Undefined == [type |-> "undefined"]
Null == [type |-> "null"]
Str(s) == [type |-> "string", value |-> s]
Num(n) == [type |-> "number", value |-> n]

IsObject(v) == v.type = "object"

\* A mutant of OptionalId: v && v.id, which hands null and undefined on.
OptionalIdGuarded(v) == IF IsObject(v) THEN Num(v.id) ELSE v

\* v?.id : undefined when v is null or undefined, v.id otherwise
OptionalId(v) == IF IsObject(v) THEN Num(v.id) ELSE Undefined

\* interface Genre { id; name; image_background }
Genre(i, n) == [type |-> "object", id |-> i, name |-> n]

\* interface Platform { id; name; slug }
Platform(i, n) == [type |-> "object", id |-> i, name |-> n]

\* interface Game { id; name; ... }
Game(i) == [type |-> "object", id |-> i]

\* The lists the /genres endpoint may answer with: one with unique ids, one
\* in which two genres share an id.
UniqueGenres == <<Genre(1, "Action"), Genre(2, "RPG")>>
DuplicateGenres == <<Genre(1, "Action"), Genre(1, "Indie")>>
GenreLists == {UniqueGenres, DuplicateGenres}

\* The list the /genres endpoint answers with while the application runs.
GenreResponses == {UniqueGenres}

\* An array, and a FetchResponse { count, results }
Arr(items) == [type |-> "array", items |-> items]
FetchResponse(results) ==
    [type |-> "object", count |-> Len(results), results |-> results]

\* The result lists the /games endpoint may answer with.
GameResponses == {<<>>, <<Game(1)>>}

\* JavaScript truthiness of the values used here
Truthy(v) == v.type \notin {"undefined", "null"} /\ v # Str("")

\* The text the user may have typed into the search input.
SearchTexts == {"zelda"}

ErrorMessage == Str("Network Error")

Range(s) == {s[i] : i \in DOMAIN s}

\* ------------------------------------------------------------------ state
VARIABLES
    gameQuery,   \* App's useState value
    props,       \* what App's last render handed to its children
    genres,      \* the genres query as useGenres returns it
    cache,       \* the games queries, by key
    returned,    \* by key, the results of the latest successful /games response
    lastRequest, \* the latest GET sent
    lastResponse, \* the latest answer to a GET /games
    lastEvent,   \* the latest user event
    clickedGenre, \* the genre of the genre button clicked last
    calls,       \* the callbacks the latest user event invoked, in order
    nEvents,     \* number of user events so far
    probe        \* a component under test: its input and its output

vars == <<gameQuery, props, genres, cache, returned, lastRequest, lastResponse,
          lastEvent, clickedGenre, calls, nEvents, probe>>

\* ------------------------------------------------------------------ App
Fields == {"genre", "platform", "sortOrder", "searchText"}

\* useState<GameQuery>({} as GameQuery): no field is set
EmptyGameQuery == [f \in Fields |-> Undefined]

\* A mutant of Spread: the object literal without the spread.
SpreadDropped(q, f, v) == [EmptyGameQuery EXCEPT ![f] = v]

\* { ...gameQuery, f } with f bound to v
Spread(q, f, v) == [q EXCEPT ![f] = v]

\* The four callbacks close over the gameQuery of the render that made them.
onSearch(q, searchText) == Spread(q, "searchText", searchText)

\* A mutant of onSelectGenre: the genre is written to the platform field.
onSelectGenreAsPlatform(q, genre) == Spread(q, "platform", genre)

onSelectGenre(q, genre) == Spread(q, "genre", genre)
onSelectPlatform(q, platform) == Spread(q, "platform", platform)
onSelectSortOrder(q, sortOrder) == Spread(q, "sortOrder", sortOrder)

CallbackField ==
    [cb \in {"onSearch", "onSelectGenre", "onSelectPlatform", "onSelectSortOrder"} |->
        CASE cb = "onSearch" -> "searchText"
          [] cb = "onSelectGenre" -> "genre"
          [] cb = "onSelectPlatform" -> "platform"
          [] cb = "onSelectSortOrder" -> "sortOrder"]

Callback(cb, q, arg) ==
    CASE cb = "onSearch" -> onSearch(q, arg)
      [] cb = "onSelectGenre" -> onSelectGenre(q, arg)
      [] cb = "onSelectPlatform" -> onSelectPlatform(q, arg)
      [] cb = "onSelectSortOrder" -> onSelectSortOrder(q, arg)

\* A mutant of AppRender: GenreList is handed a selection of its own, never set.
AppRenderOwnGenre(q) ==
    [selectedGenre |-> Undefined,
     selectedPlatform |-> q.platform,
     sortOrder |-> q.sortOrder,
     gridQuery |-> q,
     closure |-> q]

\* App's return statement: the props of GenreList, PlatformSelector,
\* SortSelector and GameGrid, and the gameQuery the callbacks close over.
AppRender(q) ==
    [selectedGenre |-> q.genre,
     selectedPlatform |-> q.platform,
     sortOrder |-> q.sortOrder,
     gridQuery |-> q,
     closure |-> q]

\* ------------------------------------------------------------------ hooks
\* useGames: the params object of the GET /games request
GamesParams(q) ==
    [genres |-> OptionalId(q.genre),
     platforms |-> OptionalId(q.platform),
     ordering |-> q.sortOrder]

\* A mutant of GamesKey: the key is made of the request's params.
GamesKeyOfParams(q) ==
    <<[genres |-> OptionalId(q.genre),
       platforms |-> OptionalId(q.platform),
       ordering |-> q.sortOrder]>>

\* A mutant of GamesKey: the key leaves the search text out.
GamesKeyNoSearch(q) == <<[q EXCEPT !.searchText = Undefined]>>

\* useGames: the dependency list [gameQuery] that identifies the request
GamesKey(q) == <<q>>

\* useGames(gameQuery): the request handed to the fetching layer
useGames(q) ==
    [endpoint |-> "/games", params |-> GamesParams(q), key |-> GamesKey(q)]

\* usePlatforms: initialData, the platforms shipped with the application
PlatformsInitialData == FetchResponse(<<Platform(1, "PC")>>)

\* usePlatforms(): the query starts with its initial data and no fetch
usePlatforms ==
    [data |-> PlatformsInitialData, error |-> Undefined, isLoading |-> FALSE,
     fetching |-> FALSE]

\* The fetching layer: one entry per query key.
\* Cache miss: isLoading is set and the queryFn runs.
LoadingEntry ==
    [data |-> Undefined, error |-> Undefined, isLoading |-> TRUE, fetching |-> TRUE]

\* TRUE when asking for key sends a request: no entry, or an entry that is
\* not being fetched already (a cached entry of a games query is stale at once).
StartsFetch(c, key) == key \notin DOMAIN c \/ ~c[key].fetching

\* The cache after a component asks for key.
Observe(c, key) ==
    IF key \notin DOMAIN c THEN c @@ (key :> LoadingEntry)
    ELSE IF c[key].fetching THEN c
    ELSE IF c[key].data = Undefined THEN [c EXCEPT ![key] = LoadingEntry]
    ELSE [c EXCEPT ![key].fetching = TRUE]

\* A mutant of StoreData: the fetch stays marked as loading.
StoreDataStillLoading(e, data) ==
    [data |-> data, error |-> Undefined, isLoading |-> TRUE, fetching |-> FALSE]

\* The response arrived: the data is stored and isLoading is cleared.
StoreData(e, data) ==
    [data |-> data, error |-> Undefined, isLoading |-> FALSE, fetching |-> FALSE]

\* The fetch failed: the error is stored instead.
StoreError(e, err) ==
    [data |-> e.data, error |-> err, isLoading |-> FALSE, fetching |-> FALSE]

\* What a hook returns to its component.
HookResult(e) == [data |-> e.data, error |-> e.error, isLoading |-> e.isLoading]

\* A mutant of GridEntry: the grid is handed whatever was answered last.
GridEntryLastResponse(c, p) ==
    IF lastResponse.key \in DOMAIN c THEN c[lastResponse.key]
    ELSE c[GamesKey(p.gridQuery)]

\* GameGrid: useGames(gameQuery) on the gameQuery prop
GridEntry(c, p) == c[GamesKey(p.gridQuery)]

\* ------------------------------------------------------------------ api client
\* axios.create({ baseURL, params: { key } })
BaseURL == "https://api.rawg.io/api"
ApiKey == Str("YOUR_API_KEY_HERE")
DefaultParams == [key |-> ApiKey]

\* A mutant of ApiClientGet: the params of the request replace the defaults.
ApiClientGetReplacing(path, params) ==
    [method |-> "GET",
     url |-> BaseURL \o path,
     params |-> IF params = Undefined THEN DefaultParams ELSE params]

\* apiClient.get(path, { params }): the request the instance sends. The
\* params of the request are merged into the instance's default params.
ApiClientGet(path, params) ==
    [method |-> "GET",
     url |-> BaseURL \o path,
     params |-> IF params = Undefined THEN DefaultParams
                ELSE params @@ DefaultParams]

\* The paths the hooks ask for.
Endpoints == {"/games", "/genres", "/platforms/lists/parents"}

\* ------------------------------------------------------------------ components
\* A mutant of GenreList: a genre is bold when it is the selected object.
GenreListSameObject(selectedGenre, r) ==
    IF Truthy(r.error) THEN [kind |-> "null"]
    ELSE IF r.isLoading THEN [kind |-> "spinner"]
    ELSE IF r.data.type # "array" THEN [kind |-> "throws"]
    ELSE [kind |-> "list",
          items |-> [i \in DOMAIN r.data.items |->
              [key |-> r.data.items[i].id,
               label |-> r.data.items[i].name,
               fontWeight |-> IF r.data.items[i] = selectedGenre
                              THEN "bold" ELSE "normal",
               onClick |-> <<[cb |-> "onSelectGenre", arg |-> r.data.items[i]]>>]]]

\* A mutant of GenreList: isLoading is looked at before error.
GenreListSpinnerFirst(selectedGenre, r) ==
    IF r.isLoading THEN [kind |-> "spinner"]
    ELSE IF Truthy(r.error) THEN [kind |-> "null"]
    ELSE IF r.data.type # "array" THEN [kind |-> "throws"]
    ELSE [kind |-> "list",
          items |-> [i \in DOMAIN r.data.items |->
              [key |-> r.data.items[i].id,
               label |-> r.data.items[i].name,
               fontWeight |-> IF Num(r.data.items[i].id) = OptionalId(selectedGenre)
                              THEN "bold" ELSE "normal",
               onClick |-> <<[cb |-> "onSelectGenre", arg |-> r.data.items[i]]>>]]]

\* GenreList({ selectedGenre, onSelectGenre }) with r the result of useGenres()
GenreList(selectedGenre, r) ==
    IF Truthy(r.error) THEN [kind |-> "null"]
    ELSE IF r.isLoading THEN [kind |-> "spinner"]
    ELSE IF r.data.type # "array" THEN [kind |-> "throws"]
    ELSE [kind |-> "list",
          items |-> [i \in DOMAIN r.data.items |->
              [key |-> r.data.items[i].id,
               label |-> r.data.items[i].name,
               fontWeight |-> IF Num(r.data.items[i].id) = OptionalId(selectedGenre)
                              THEN "bold" ELSE "normal",
               onClick |-> <<[cb |-> "onSelectGenre", arg |-> r.data.items[i]]>>]]]

\* const skeletons = [1, 2, 3, 4, 5, 6]
Skeletons == <<1, 2, 3, 4, 5, 6>>

\* data?.results.map(game => <GameCardContainer key={game.id}> ...)
GameCards(data) ==
    IF data.type = "object"
    THEN [i \in DOMAIN data.results |->
              [key |-> data.results[i].id, game |-> data.results[i]]]
    ELSE <<>>

\* A mutant of GameGrid: the early return on error is missing.
GameGridNoErrorReturn(r) ==
    [kind |-> "grid",
     text |-> r.error,
     skeletons |-> IF r.isLoading THEN Skeletons ELSE <<>>,
     cards |-> GameCards(r.data)]

\* A mutant of GameGrid: the skeletons are rendered whatever isLoading is.
GameGridAlwaysSkeletons(r) ==
    IF Truthy(r.error)
    THEN [kind |-> "text", text |-> r.error, skeletons |-> <<>>, cards |-> <<>>]
    ELSE [kind |-> "grid",
          text |-> Undefined,
          skeletons |-> Skeletons,
          cards |-> GameCards(r.data)]

\* GameGrid({ gameQuery }) with r the result of useGames(gameQuery)
GameGrid(r) ==
    IF Truthy(r.error)
    THEN [kind |-> "text", text |-> r.error, skeletons |-> <<>>, cards |-> <<>>]
    ELSE [kind |-> "grid",
          text |-> Undefined,
          skeletons |-> IF r.isLoading THEN Skeletons ELSE <<>>,
          cards |-> GameCards(r.data)]

\* SortSelector: the sortOrders array
SortOrders ==
    <<[value |-> "", label |-> "Relevance"],
      [value |-> "name", label |-> "Name"],
      [value |-> "-released", label |-> "Release date"]>>

\* A mutant of SearchOnSubmit: onSearch is called for a non-empty value only.
SearchOnSubmitNonEmpty(connected, value) ==
    IF connected /\ value # "" THEN <<[cb |-> "onSearch", arg |-> Str(value)]>> ELSE <<>>

\* SearchInput's onSubmit: if (ref.current) onSearch(ref.current.value)
SearchOnSubmit(connected, value) ==
    IF connected THEN <<[cb |-> "onSearch", arg |-> Str(value)]>> ELSE <<>>

\* PlatformSelector's MenuItem onClick
PlatformOnClick(platform) == <<[cb |-> "onSelectPlatform", arg |-> platform]>>

\* A mutant of SortOnClick: the callback is handed the label.
SortOnClickLabel(order) == <<[cb |-> "onSelectSortOrder", arg |-> Str(order.label)]>>

\* SortSelector's MenuItem onClick
SortOnClick(order) == <<[cb |-> "onSelectSortOrder", arg |-> Str(order.value)]>>

\* sortOrders.find(order => order.value === sortOrder): the index of the
\* first match, 0 when there is none
FindSortOrder(sortOrder) ==
    LET matches == {i \in DOMAIN SortOrders : Str(SortOrders[i].value) = sortOrder}
    IN  IF matches = {} THEN 0
        ELSE CHOOSE i \in matches : \A j \in matches : i <= j

\* SortSelector({ onSelectSortOrder, sortOrder })
SortSelector(sortOrder) ==
    LET found == FindSortOrder(sortOrder)
    IN  [label |-> IF found # 0 /\ SortOrders[found].label # ""
                   THEN SortOrders[found].label ELSE "Relevance",
         items |-> [i \in DOMAIN SortOrders |->
                      [key |-> SortOrders[i].value,
                       label |-> SortOrders[i].label,
                       onClick |-> SortOnClick(SortOrders[i])]]]

\* v?.name || ''
NameOrEmpty(v) == IF IsObject(v) THEN v.name ELSE ""

\* A mutant of GameHeading: the names are read without optional chaining.
GameHeadingNoOptionalChaining(q) ==
    IF ~IsObject(q.platform) \/ ~IsObject(q.genre) THEN [kind |-> "throws"]
    ELSE [kind |-> "heading",
          text |-> q.platform.name \o " " \o q.genre.name \o " Games"]

\* GameHeading({ gameQuery }): the template literal
\* `${platform?.name || ''} ${genre?.name || ''} Games`
GameHeading(q) ==
    [kind |-> "heading",
     text |-> NameOrEmpty(q.platform) \o " " \o NameOrEmpty(q.genre) \o " Games"]

\* ------------------------------------------------------------------ behaviour
NoProbe == [component |-> "none"]
NoResponse == [key |-> <<>>, ok |-> FALSE]

\* The first render: gameQuery is {}, GenreList and GameGrid have started
\* their fetches, PlatformSelector has its initial data.
AppInit ==
    /\ gameQuery = EmptyGameQuery
    /\ props = AppRender(EmptyGameQuery)
    /\ genres = LoadingEntry
    /\ cache = Observe(<<>>, GamesKey(EmptyGameQuery))
    /\ returned = <<>>
    /\ lastRequest = [endpoint |-> useGames(EmptyGameQuery).endpoint,
                      params |-> useGames(EmptyGameQuery).params,
                      query |-> EmptyGameQuery,
                      at |-> 0]
    /\ lastResponse = NoResponse
    /\ lastEvent = [type |-> "mount", target |-> Undefined]
    /\ clickedGenre = Undefined
    /\ calls = <<>>
    /\ nEvents = 0

Init == AppInit /\ probe = NoProbe

\* setGameQuery as the callbacks call it: every call computes the new state
\* from the gameQuery of the last render, so the last call decides.
SetGameQuery(q, closure, cs) ==
    IF cs = <<>> THEN q
    ELSE Callback(cs[Len(cs)].cb, closure, cs[Len(cs)].arg)

\* A user event whose handler makes the calls cs: the state is set, App
\* renders again, and GameGrid asks useGames for the gameQuery it is handed.
HandleEvent(type, target, cs) ==
    /\ nEvents < MaxEvents
    /\ lastEvent' = [type |-> type, target |-> target]
    /\ clickedGenre' = IF type = "clickGenre" THEN target ELSE clickedGenre
    /\ calls' = cs
    /\ nEvents' = nEvents + 1
    /\ gameQuery' = SetGameQuery(gameQuery, props.closure, cs)
    /\ props' = AppRender(gameQuery')
    /\ LET old == GamesKey(props.gridQuery)
           req == useGames(props'.gridQuery)
       IN  IF req.key = old
           THEN UNCHANGED <<cache, lastRequest>>
           ELSE /\ cache' = Observe(cache, req.key)
                /\ lastRequest' =
                     IF StartsFetch(cache, req.key)
                     THEN [endpoint |-> req.endpoint, params |-> req.params,
                           query |-> props'.gridQuery, at |-> nEvents']
                     ELSE lastRequest
    /\ UNCHANGED <<genres, returned, lastResponse, probe>>

\* The user clicks the i-th button of the genre list.
ClickGenre(i) ==
    LET view == GenreList(props.selectedGenre, HookResult(genres))
    IN  /\ view.kind = "list"
        /\ i \in DOMAIN view.items
        /\ HandleEvent("clickGenre", genres.data.items[i], view.items[i].onClick)

\* The user picks the i-th item of the platform menu.
ClickPlatform(i) ==
    /\ i \in DOMAIN usePlatforms.data.results
    /\ HandleEvent("clickPlatform", usePlatforms.data.results[i],
                   PlatformOnClick(usePlatforms.data.results[i]))

\* The user picks the i-th item of the sort menu.
ClickSortOrder(i) ==
    LET view == SortSelector(props.sortOrder)
    IN  /\ i \in DOMAIN view.items
        /\ HandleEvent("clickSortOrder", Str(view.items[i].key), view.items[i].onClick)

\* The user submits the search form with text in the input.
SubmitSearch(text) ==
    HandleEvent("submitSearch", Str(text), SearchOnSubmit(TRUE, text))

\* GET /genres answers.
GenresSucceed(list) ==
    /\ genres.fetching
    /\ genres' = StoreData(genres, Arr(list))
    /\ UNCHANGED <<gameQuery, props, cache, returned, lastRequest, lastResponse,
                   lastEvent, clickedGenre, calls, nEvents, probe>>

\* GET /genres fails.
GenresFail ==
    /\ genres.fetching
    /\ genres' = StoreError(genres, ErrorMessage)
    /\ UNCHANGED <<gameQuery, props, cache, returned, lastRequest, lastResponse,
                   lastEvent, clickedGenre, calls, nEvents, probe>>

\* GET /games for key answers with results.
GamesSucceed(key, results) ==
    /\ cache[key].fetching
    /\ cache' = [cache EXCEPT ![key] = StoreData(@, FetchResponse(results))]
    /\ returned' = (key :> results) @@ returned
    /\ lastResponse' = [key |-> key, ok |-> TRUE]
    /\ UNCHANGED <<gameQuery, props, genres, lastRequest, lastEvent,
                   clickedGenre, calls, nEvents, probe>>

\* GET /games for key fails.
GamesFail(key) ==
    /\ cache[key].fetching
    /\ cache' = [cache EXCEPT ![key] = StoreError(@, ErrorMessage)]
    /\ lastResponse' = [key |-> key, ok |-> FALSE]
    /\ UNCHANGED <<gameQuery, props, genres, returned, lastRequest, lastEvent,
                   clickedGenre, calls, nEvents, probe>>

Respond ==
    \/ \E list \in GenreResponses : GenresSucceed(list)
    \/ GenresFail
    \/ \E key \in DOMAIN cache : \E results \in GameResponses : GamesSucceed(key, results)
    \/ \E key \in DOMAIN cache : GamesFail(key)

Next ==
    \/ \E i \in DOMAIN UniqueGenres : ClickGenre(i)
    \/ \E i \in DOMAIN usePlatforms.data.results : ClickPlatform(i)
    \/ \E i \in DOMAIN SortOrders : ClickSortOrder(i)
    \/ \E text \in SearchTexts : SubmitSearch(text)
    \/ Respond

Spec == Init /\ [][Next]_vars

\* Every request sent is answered or fails.
FairSpec == Spec /\ WF_vars(Respond)

\* ------------------------------------------------------------------ components alone
\* GenreList and GameGrid rendered on every combination of props and hook
\* result, whether or not the hooks can produce it.
SelectedGenres ==
    {Undefined, Null, Genre(1, "Action"), Genre(2, "RPG"), Genre(1, "Indie"),
     Genre(3, "Puzzle")}

GenreListInputs ==
    [selectedGenre : SelectedGenres,
     result : [data : {Undefined, Arr(<<>>)} \cup {Arr(l) : l \in GenreLists},
               error : {Undefined, ErrorMessage},
               isLoading : BOOLEAN]]

GameGridInputs ==
    [data : {Undefined, FetchResponse(<<Game(2), Game(1)>>)}
                \cup {FetchResponse(l) : l \in GameResponses},
     error : {Undefined, ErrorMessage},
     isLoading : BOOLEAN]

\* Every gameQuery object: each field unset, null where the interface allows
\* it, or set.
GameQueries ==
    [genre : {Undefined, Null, Genre(1, "Action"), Genre(2, "RPG")},
     platform : {Undefined, Null, Platform(1, "PC")},
     sortOrder : {Undefined, Str(""), Str("name")},
     searchText : {Undefined, Str("zelda")}]

\* The calls of apiClient.get: without params, and with those of useGames.
ApiClientInputs ==
    [path : Endpoints, params : {Undefined} \cup {GamesParams(q) : q \in GameQueries}]

\* The sortOrder prop: unset, the value of an option, or another string.
SortSelectorInputs ==
    {Undefined, Str("rating")} \cup {Str(SortOrders[i].value) : i \in DOMAIN SortOrders}

Probes(component, inputs) ==
    {[component |-> component, input |-> i, rendered |-> FALSE,
      output |-> Undefined] : i \in inputs}

ComponentInit ==
    /\ AppInit
    /\ probe \in Probes("GenreList", GenreListInputs)
            \cup Probes("GameGrid", GameGridInputs)
            \cup Probes("useGames", GameQueries)
            \cup Probes("apiClient", ApiClientInputs)
            \cup Probes("SortSelector", SortSelectorInputs)
            \cup Probes("GameHeading", GameQueries)

\* The component under test is called and its result kept.
Render(component, output) ==
    /\ probe.component = component
    /\ ~probe.rendered
    /\ probe' = [probe EXCEPT !.rendered = TRUE, !.output = output]
    /\ UNCHANGED <<gameQuery, props, genres, cache, returned, lastRequest,
                   lastResponse, lastEvent, clickedGenre, calls, nEvents>>

RenderUseGames == Render("useGames", useGames(probe.input))

RenderApiClient ==
    Render("apiClient", ApiClientGet(probe.input.path, probe.input.params))

RenderSortSelector == Render("SortSelector", SortSelector(probe.input))

RenderGameHeading == Render("GameHeading", GameHeading(probe.input))

RenderGenreList ==
    /\ probe.component = "GenreList"
    /\ ~probe.rendered
    /\ probe' = [probe EXCEPT
                   !.rendered = TRUE,
                   !.output = GenreList(probe.input.selectedGenre, probe.input.result)]
    /\ UNCHANGED <<gameQuery, props, genres, cache, returned, lastRequest,
                   lastResponse, lastEvent, clickedGenre, calls, nEvents>>

RenderGameGrid ==
    /\ probe.component = "GameGrid"
    /\ ~probe.rendered
    /\ probe' = [probe EXCEPT !.rendered = TRUE, !.output = GameGrid(probe.input)]
    /\ UNCHANGED <<gameQuery, props, genres, cache, returned, lastRequest,
                   lastResponse, lastEvent, clickedGenre, calls, nEvents>>

ComponentNext ==
    \/ RenderGenreList
    \/ RenderGameGrid
    \/ RenderUseGames
    \/ RenderApiClient
    \/ RenderSortSelector
    \/ RenderGameHeading

ComponentSpec == ComponentInit /\ [][ComponentNext]_vars

\* ------------------------------------------------------------------ useQuery
\* One query of usePlatforms or useGenres, the components that call the hook,
\* and the clock.

\* staleTime: 24 * 60 * 60 * 1000, in milliseconds
StaleTime == 24 * 60 * 60 * 1000

\* The options usePlatforms and useGenres hand to useQuery.
QueryOptions(query) ==
    IF query = "platforms"
    THEN [queryKey |-> <<"platforms">>,
          endpoint |-> "/platforms/lists/parents",
          staleTime |-> StaleTime,
          initialData |-> PlatformsInitialData]
    ELSE [queryKey |-> <<"genres">>,
          endpoint |-> "/genres",
          staleTime |-> StaleTime,
          initialData |-> Undefined]

\* What the endpoint of the query may answer with.
QueryResponses(query) ==
    IF query = "platforms"
    THEN {FetchResponse(<<Platform(1, "PC"), Platform(2, "PlayStation")>>)}
    ELSE {Arr(l) : l \in GenreResponses}

\* The component instances that call the hook.
Askers == {1, 2}

\* The entry of a query when it is created: its initial data, if it has any,
\* count as fetched at that moment.
NewEntry(options) ==
    [data |-> options.initialData, error |-> Undefined, isLoading |-> FALSE,
     fetching |-> FALSE]

\* A mutant of IsStale: staleTime is not looked at.
IsStaleAtOnce(e, updatedAt, now, staleTime) == TRUE

\* Cache check: there is no data, or the data are older than staleTime.
IsStale(e, updatedAt, now, staleTime) ==
    e.data = Undefined \/ now - updatedAt >= staleTime

\* A mutant of SendsRequest: a fetch in progress is not looked at.
SendsRequestAgain(e, stale) == stale

\* TRUE when a component asking for the query makes it send a request: the
\* entry is stale and is not being fetched already.
SendsRequest(e, stale) == stale /\ ~e.fetching

\* The entry when the request is sent.
StartFetch(e) ==
    IF e.data = Undefined THEN LoadingEntry ELSE [e EXCEPT !.fetching = TRUE]

\* Every component that has called the hook is handed the entry.
Notify(observers, e) == [o \in observers |-> HookResult(e)]

QueryInit ==
    /\ AppInit
    /\ probe \in {[component |-> "useQuery",
                    query |-> q,
                    created |-> FALSE,
                    now |-> 0,
                    updatedAt |-> 0,
                    entry |-> NewEntry(QueryOptions(q)),
                    observers |-> {},
                    views |-> <<>>,
                    inflight |-> 0,
                    sent |-> 0,
                    endpoint |-> "",
                    shared |-> FALSE,
                    trigger |-> [kind |-> "none", at |-> 0, sends |-> FALSE]] :
                   q \in {"platforms", "genres"}}

\* A component asks for the query, by mounting or, mounted already, when the
\* window gets the focus again: the query is created at the first call, and
\* a request is sent when SendsRequest says so.
Ask(kind, observers) ==
    LET options == QueryOptions(probe.query)
        updatedAt == IF probe.created THEN probe.updatedAt ELSE probe.now
        stale == IsStale(probe.entry, updatedAt, probe.now, options.staleTime)
        sends == SendsRequest(probe.entry, stale)
        entry == IF sends THEN StartFetch(probe.entry) ELSE probe.entry
    IN  /\ sends => probe.sent < MaxRequests
        /\ probe' = [probe EXCEPT
                        !.created = TRUE,
                        !.updatedAt = updatedAt,
                        !.entry = entry,
                        !.observers = observers,
                        !.views = Notify(observers, entry),
                        !.inflight = IF sends THEN @ + 1 ELSE @,
                        !.sent = IF sends THEN @ + 1 ELSE @,
                        !.endpoint = IF sends THEN options.endpoint ELSE @,
                        !.shared = IF sends THEN FALSE
                                   ELSE IF probe.entry.fetching THEN TRUE ELSE @,
                        !.trigger = [kind |-> kind, at |-> probe.now, sends |-> sends]]
        /\ UNCHANGED <<gameQuery, props, genres, cache, returned, lastRequest,
                       lastResponse, lastEvent, clickedGenre, calls, nEvents>>

\* A component that calls the hook is mounted.
Mount(o) ==
    /\ o \notin probe.observers
    /\ Ask("mount", probe.observers \cup {o})

\* The window gets the focus again while a component is mounted.
Refocus ==
    /\ probe.observers # {}
    /\ probe.trigger # [kind |-> "focus", at |-> probe.now, sends |-> FALSE]
    /\ Ask("focus", probe.observers)

\* Half a staleTime passes.
Tick ==
    /\ probe.now < MaxTicks * (StaleTime \div 2)
    /\ probe' = [probe EXCEPT !.now = @ + StaleTime \div 2]
    /\ UNCHANGED <<gameQuery, props, genres, cache, returned, lastRequest,
                   lastResponse, lastEvent, clickedGenre, calls, nEvents>>

\* A request of the query is answered with data.
QuerySucceed(data) ==
    /\ probe.inflight > 0
    /\ LET entry == StoreData(probe.entry, data)
       IN  probe' = [probe EXCEPT
                       !.entry = entry,
                       !.updatedAt = probe.now,
                       !.inflight = @ - 1,
                       !.views = Notify(probe.observers, entry)]
    /\ UNCHANGED <<gameQuery, props, genres, cache, returned, lastRequest,
                   lastResponse, lastEvent, clickedGenre, calls, nEvents>>

\* A request of the query fails.
QueryFail ==
    /\ probe.inflight > 0
    /\ LET entry == StoreError(probe.entry, ErrorMessage)
       IN  probe' = [probe EXCEPT
                       !.entry = entry,
                       !.inflight = @ - 1,
                       !.views = Notify(probe.observers, entry)]
    /\ UNCHANGED <<gameQuery, props, genres, cache, returned, lastRequest,
                   lastResponse, lastEvent, clickedGenre, calls, nEvents>>

QueryNext ==
    \/ \E o \in Askers : Mount(o)
    \/ Refocus
    \/ Tick
    \/ \E data \in QueryResponses(probe.query) : QuerySucceed(data)
    \/ QueryFail

QuerySpec == QueryInit /\ [][QueryNext]_vars

\* ------------------------------------------------------------------ the search form
\* The application with its search input: the user types into the input, an
\* element React does not control, and submits the form.
InputTexts == {"", "zelda", "mario"}

\* The input is empty at first; ref.current is the input element once React
\* has attached it, and null otherwise.
SearchInit ==
    /\ AppInit
    /\ probe \in {[component |-> "SearchInput", value |-> "", connected |-> c] :
                     c \in BOOLEAN}

\* The user changes the text in the input: no handler is attached to it.
TypeText(text) ==
    /\ probe.value # text
    /\ probe' = [probe EXCEPT !.value = text]
    /\ UNCHANGED <<gameQuery, props, genres, cache, returned, lastRequest,
                   lastResponse, lastEvent, clickedGenre, calls, nEvents>>

\* The user submits the form: onSubmit runs with the text in the input.
SubmitForm ==
    HandleEvent("submitSearch", Str(probe.value),
                SearchOnSubmit(probe.connected, probe.value))

SearchNext ==
    \/ \E text \in InputTexts : TypeText(text)
    \/ SubmitForm
    \/ Respond

SearchSpec == SearchInit /\ [][SearchNext]_vars

\* ------------------------------------------------------------------ claims
\* The user event of this step called exactly one callback.
OneCall == nEvents' # nEvents /\ Len(calls') = 1

\* C1: a step in which a callback of App is called with a value sets the
\* callback's own field of gameQuery to that value and leaves the other three
\* fields as they were.
C1_CallbackSetsOwnField ==
    [][OneCall =>
          LET own == CallbackField[calls'[1].cb]
          IN  /\ gameQuery'[own] = calls'[1].arg
              /\ \A f \in Fields \ {own} : gameQuery'[f] = gameQuery[f]]_vars

\* C1 witness: a search was submitted after a genre and a sort order had been
\* chosen, and all three are in gameQuery.
C1_Witness ==
    /\ calls = <<[cb |-> "onSearch", arg |-> Str("zelda")]>>
    /\ gameQuery.searchText = Str("zelda")
    /\ gameQuery.genre = Genre(2, "RPG")
    /\ gameQuery.sortOrder = Str("name")

\* TRUE when the queries q1 and q2 differ in the field f and in no other.
DifferOnlyIn(q1, q2, f) ==
    /\ q1[f] # q2[f]
    /\ \A g \in Fields \ {f} : q1[g] = q2[g]

\* C2: when a /games request follows one made for a gameQuery that differs
\* from the new one only in searchText, the two requests have different
\* parameters.
C2_SearchTextReachesParams ==
    [][(/\ lastRequest'.at # lastRequest.at
        /\ DifferOnlyIn(lastRequest.query, lastRequest'.query, "searchText"))
          => lastRequest'.params # lastRequest.params]_vars

\* C4: what App handed to GenreList, PlatformSelector, SortSelector and
\* GameGrid at its last render is the selection in App's state.
C4_ChildrenSeeAppState ==
    /\ props.selectedGenre = props.gridQuery.genre
    /\ props.selectedGenre = gameQuery.genre
    /\ props.selectedPlatform = gameQuery.platform
    /\ props.sortOrder = gameQuery.sortOrder
    /\ props.gridQuery = gameQuery

\* C4 witness: a genre, a platform and a sort order have been selected.
C4_Witness ==
    /\ IsObject(gameQuery.genre)
    /\ IsObject(gameQuery.platform)
    /\ gameQuery.sortOrder = Str("-released")
    /\ props.selectedGenre = gameQuery.genre

\* C5: gameQuery.genre and gameQuery.platform are each an object or null.
C5_GenreAndPlatformObjectOrNull ==
    /\ gameQuery.genre.type \in {"object", "null"}
    /\ gameQuery.platform.type \in {"object", "null"}

OnSelectGenreCalls == SelectSeq(calls, LAMBDA c : c.cb = "onSelectGenre")

\* C6: gameQuery.genre is the genre of the genre button clicked last (and
\* unset while none was clicked); the latest user event called onSelectGenre
\* once, with the clicked button's genre, if it was a click on a genre
\* button, and not at all otherwise.
C6_GenreIsLastClicked ==
    /\ gameQuery.genre = clickedGenre
    /\ OnSelectGenreCalls =
         IF lastEvent.type = "clickGenre"
         THEN <<[cb |-> "onSelectGenre", arg |-> lastEvent.target]>>
         ELSE <<>>

\* C6 witness: RPG was clicked after Action, and another control was used
\* since.
C6_Witness ==
    /\ clickedGenre = Genre(2, "RPG")
    /\ \E k \in DOMAIN cache : k[1].genre = Genre(1, "Action")
    /\ lastEvent.type # "clickGenre"
    /\ gameQuery.genre = Genre(2, "RPG")

\* GenreList was rendered alone and returned the list.
GenreListRendered ==
    /\ probe.component = "GenreList"
    /\ probe.rendered
    /\ probe.output.kind = "list"

BoldItems ==
    {i \in DOMAIN probe.output.items : probe.output.items[i].fontWeight = "bold"}

\* C7: in the list GenreList renders, a genre's button is bold exactly when
\* selectedGenre is a genre with the same id; with selectedGenre null or
\* unset no button is bold, and with unique genre ids at most one is.
C7_BoldIffSelectedId ==
    GenreListRendered =>
        LET sel == probe.input.selectedGenre
            data == probe.input.result.data.items
        IN  /\ DOMAIN probe.output.items = DOMAIN data
            /\ \A i \in DOMAIN data :
                  i \in BoldItems <=> (IsObject(sel) /\ data[i].id = sel.id)
            /\ sel \in {Null, Undefined} => BoldItems = {}
            /\ (\A i, j \in DOMAIN data : data[i].id = data[j].id => i = j)
                  => Cardinality(BoldItems) <= 1

\* C7 witness: the selected genre is another object than the list's genre of
\* the same id, and that genre's button alone is bold.
C7_Witness ==
    /\ GenreListRendered
    /\ probe.input.selectedGenre = Genre(1, "Indie")
    /\ probe.input.result.data = Arr(UniqueGenres)
    /\ BoldItems = {1}

\* C8: when the result of useGames has an error, GameGrid renders the error
\* message and neither skeletons nor game cards.
C8_ErrorOnly ==
    (/\ probe.component = "GameGrid"
     /\ probe.rendered
     /\ Truthy(probe.input.error))
        => /\ probe.output.kind = "text"
           /\ probe.output.text = probe.input.error
           /\ probe.output.skeletons = <<>>
           /\ probe.output.cards = <<>>

\* C8 witness: GameGrid was rendered with an error while isLoading was true
\* and data held games.
C8_Witness ==
    /\ probe.component = "GameGrid"
    /\ probe.rendered
    /\ probe.input.error = ErrorMessage
    /\ probe.input.isLoading
    /\ probe.input.data = FetchResponse(<<Game(2), Game(1)>>)
    /\ probe.output.kind = "text"

\* What useGames returns to GameGrid, and what GameGrid renders from it.
GridResult == HookResult(GridEntry(cache, props))
GridView == GameGrid(GridResult)

GridPending == GridEntry(cache, props).fetching

\* No request for the gameQuery of the last render is in flight, and the grid
\* shows the error, or the games of the latest response for that gameQuery.
GridSettled ==
    /\ ~GridPending
    /\ \/ GridView.kind = "text"
       \/ /\ GamesKey(gameQuery) \in DOMAIN returned
          /\ GridView.skeletons = <<>>
          /\ GridView.cards = GameCards(FetchResponse(returned[GamesKey(gameQuery)]))

\* This step sends the /games request of the new gameQuery.
SendsNewRequest ==
    /\ lastRequest'.at = nEvents'
    /\ lastRequest'.endpoint = "/games"
    /\ lastRequest'.query = gameQuery'

HookEntries == {genres, usePlatforms, GridEntry(cache, props)}

\* A fetch that has ended left data and no error, or an error.
Ended(e) == (e.error = Undefined /\ e.data # Undefined) \/ Truthy(e.error)

NoFetchInProgress ==
    /\ ~genres.fetching
    /\ ~usePlatforms.fetching
    /\ \A k \in DOMAIN cache : ~cache[k].fetching

Rendered(component) == probe.component = component /\ probe.rendered

\* C14: a request made through apiClient goes to the baseURL followed by the
\* path and carries the key parameter of the instance; the params the caller
\* passes are all in the request, next to the key.
C14_BaseURLAndKey ==
    Rendered("apiClient") =>
        /\ probe.output.url = BaseURL \o probe.input.path
        /\ "key" \in DOMAIN probe.output.params
        /\ probe.output.params.key = ApiKey
        /\ probe.input.params # Undefined =>
              /\ DOMAIN probe.output.params = DOMAIN probe.input.params \cup {"key"}
              /\ \A n \in DOMAIN probe.input.params :
                    probe.output.params[n] = probe.input.params[n]

\* C14 witness: the /games request of a gameQuery with a genre and a sort
\* order carries the key and both filters.
C14_Witness ==
    /\ Rendered("apiClient")
    /\ probe.output.url = "https://api.rawg.io/api/games"
    /\ probe.input.params # Undefined
    /\ probe.output.params.genres = Num(2)
    /\ probe.output.params.ordering = Str("name")
    /\ probe.output.params.key = Str("YOUR_API_KEY_HERE")

\* C15: the genres parameter of the games request is the id of
\* gameQuery.genre when that is a genre, and undefined when it is null or
\* unset; likewise the platforms parameter for gameQuery.platform.
C15_UnselectedIsUndefined ==
    Rendered("useGames") =>
        /\ probe.output.params.genres =
              IF probe.input.genre \in {Null, Undefined} THEN Undefined
              ELSE Num(probe.input.genre.id)
        /\ probe.output.params.platforms =
              IF probe.input.platform \in {Null, Undefined} THEN Undefined
              ELSE Num(probe.input.platform.id)

\* C15 witness: the request of a gameQuery whose genre is null and whose
\* platform is selected.
C15_Witness ==
    /\ Rendered("useGames")
    /\ probe.input.genre = Null
    /\ probe.input.platform = Platform(1, "PC")
    /\ probe.output.params.genres = Undefined
    /\ probe.output.params.platforms = Num(1)

\* C16: GenreList renders nothing when the result of useGenres has an error,
\* whatever isLoading is; the spinner when there is no error and isLoading is
\* true; and otherwise, for the genres in data, the list with one item per
\* genre, in the order of data. The list is never rendered with an error.
C16_NullSpinnerOrList ==
    Rendered("GenreList") =>
        LET r == probe.input.result
        IN  /\ Truthy(r.error) => probe.output.kind = "null"
            /\ (~Truthy(r.error) /\ r.isLoading) => probe.output.kind = "spinner"
            /\ (~Truthy(r.error) /\ ~r.isLoading /\ r.data # Undefined) =>
                  /\ probe.output.kind = "list"
                  /\ Len(probe.output.items) = Len(r.data.items)
                  /\ \A i \in DOMAIN r.data.items :
                        /\ probe.output.items[i].key = r.data.items[i].id
                        /\ probe.output.items[i].label = r.data.items[i].name
            /\ probe.output.kind = "list" => ~Truthy(r.error)

\* C16 witness: GenreList was rendered with an error while isLoading was true
\* and data held genres, and rendered nothing.
C16_Witness ==
    /\ Rendered("GenreList")
    /\ probe.input.result.error = ErrorMessage
    /\ probe.input.result.isLoading
    /\ probe.input.result.data = Arr(UniqueGenres)
    /\ probe.output.kind = "null"

\* The names of the platform and of the genre that are selected, in that
\* order.
SelectedNames(q) ==
    (IF IsObject(q.platform) THEN <<q.platform.name>> ELSE <<>>)
        \o (IF IsObject(q.genre) THEN <<q.genre.name>> ELSE <<>>)

\* The words joined with single spaces.
RECURSIVE JoinWords(_)
JoinWords(words) ==
    IF words = <<>> THEN ""
    ELSE IF Len(words) = 1 THEN words[1]
    ELSE words[1] \o " " \o JoinWords(Tail(words))

SortView == SortSelector(props.sortOrder)

\* C17: SortSelector shows the label of the option whose value is the
\* current sortOrder, and Relevance when there is none, as before the first
\* selection; a click on an option calls onSelectSortOrder once, with the
\* option's value, and the label shown after it is that option's label.
C17_LabelOfSortOrder ==
    /\ \A i \in DOMAIN SortOrders :
          Str(SortOrders[i].value) = props.sortOrder =>
              SortView.label = SortOrders[i].label
    /\ (\A i \in DOMAIN SortOrders : Str(SortOrders[i].value) # props.sortOrder)
          => SortView.label = "Relevance"
    /\ nEvents = 0 => (props.sortOrder = Undefined /\ SortView.label = "Relevance")
    /\ lastEvent.type = "clickSortOrder" =>
          /\ calls = <<[cb |-> "onSelectSortOrder", arg |-> lastEvent.target]>>
          /\ \E i \in DOMAIN SortOrders :
                /\ lastEvent.target = Str(SortOrders[i].value)
                /\ SortView.label = SortOrders[i].label

\* C17 witness: Release date was clicked after Name, and its label is shown.
C17_Witness ==
    /\ lastEvent = [type |-> "clickSortOrder", target |-> Str("-released")]
    /\ \E k \in DOMAIN cache : k[1].sortOrder = Str("name")
    /\ SortView.label = "Release date"

SameFilters(q1, q2) == \A f \in Fields : q1[f] = q2[f]

DataAge == probe.now - probe.updatedAt

\* While the data of the platforms query are younger than staleTime no
\* request is in flight, and every component that calls usePlatforms has
\* the cached list with isLoading false.
PlatformsFreshFromCache ==
    (probe.query = "platforms" /\ probe.created) =>
        /\ probe.entry.data # Undefined
        /\ \A o \in probe.observers :
              /\ probe.views[o].data = probe.entry.data
              /\ ~probe.views[o].isLoading
        /\ DataAge < StaleTime => (probe.inflight = 0 /\ ~probe.entry.fetching)

\* A step that sends a request for the platforms sends one, to
\* /platforms/lists/parents, and the data are as old as staleTime or older.
PlatformsRequestOnlyWhenStale ==
    (probe.query = "platforms" /\ probe'.sent # probe.sent) =>
        /\ probe'.sent = probe.sent + 1
        /\ probe'.endpoint = "/platforms/lists/parents"
        /\ probe.inflight = 0
        /\ probe.created
        /\ DataAge >= StaleTime

C12_OneRequestInFlight ==
    /\ [](/\ probe.inflight <= 1
           /\ probe.entry.fetching <=> probe.inflight = 1
           /\ \A o \in probe.observers : probe.views[o] = HookResult(probe.entry))
    /\ [][(probe'.observers # probe.observers /\ probe.entry.fetching) =>
             /\ probe'.sent = probe.sent
             /\ probe'.inflight = probe.inflight]_vars
    /\ [][probe'.inflight < probe.inflight =>
             /\ probe'.inflight = 0
             /\ \A o \in probe.observers :
                   /\ probe'.views[o].data = probe'.entry.data
                   /\ probe'.views[o].error = probe'.entry.error
                   /\ ~probe'.views[o].isLoading]_vars

\* C12 witness: the second component asked for the genres while the request
\* of the first was in flight; one request was sent, and both have its
\* result.
C12_Witness ==
    /\ probe.query = "genres"
    /\ probe.observers = Askers
    /\ probe.shared
    /\ probe.sent = 1
    /\ probe.inflight = 0
    /\ \A o \in Askers : probe.views[o].data = Arr(UniqueGenres)

====
